---- MODULE Spec2Model ----
(***************************************************************************)
(* Model of convert_tlm_file.py (cFS-EDS-GroundStation/utils): the         *)
(* recursive display-string builder tlm_display_string, the hex dump       *)
(* hex_string, the packet generator read_packet and the driver main.       *)
(*                                                                         *)
(* A Python str is modelled as a sequence of one-character strings, a      *)
(* bytes object as a sequence of integers in 0..255.                       *)
(***************************************************************************)
EXTENDS Integers, Sequences, FiniteSets, TLC

VARIABLES
    \* ---- driver (main) ----
    pc,             \* position of main
    error,          \* how the run ended: "none", "SystemExit0", "SystemExit2", or the uncaught exception
    screen_flag,    \* main: screen_flag
    has_filename,   \* whether --file= bound the local `filename`
    file,           \* content of the telemetry file (bytes)
    pos,            \* read position of fin
    fin_open,       \* fin is an open handle
    fout_open,      \* fout is an open handle
    packet_length,  \* main: packet_length
    labels_printed, \* main: labels_printed
    fout,           \* text written to the csv file so far
    console,        \* strings passed to print()
    decoded,        \* history: the decoded (name, object) of every packet processed so far
    yielded,        \* history: the packets read_packet has yielded so far
    \* ---- tlm_display_string called on its own ----
    fpc,            \* "idle" | "ready" | "done"
    output_flag,    \* argument output_flag
    objA, objB,     \* two objects of the same type
    outA, outB,     \* the returned strings
    fstatus,        \* "none" | "returned" | "raised"
    \* ---- hex_string called on its own ----
    hpc,            \* "idle" | "ready" | "done"
    hbytes,         \* the bytes whose .hex() is passed in
    bytes_per_line, \* argument bytes_per_line
    hex_str         \* the returned string

drvVars == <<pc, error, screen_flag, has_filename, file, pos, fin_open, fout_open,
             packet_length, labels_printed, fout, console, decoded, yielded>>
fltVars == <<fpc, output_flag, objA, objB, outA, outB, fstatus>>
hexVars == <<hpc, hbytes, bytes_per_line, hex_str>>
vars == <<drvVars, fltVars, hexVars>>

Min(a, b) == IF a < b THEN a ELSE b

(***************************************************************************)
(* Bounds of the model.                                                    *)
(***************************************************************************)
MaxNodes == 4       \* nodes of an object tree passed to tlm_display_string on its own
MaxBody  == 6       \* bytes of the telemetry file after its 4-byte length
MaxBytes == 3       \* bytes passed to hex_string on its own
MaxBpl   == 3       \* bytes_per_line passed to hex_string on its own

(***************************************************************************)
(* Text: str.format of an int, padding, hex digits.                        *)
(***************************************************************************)
DigitChars == <<"0", "1", "2", "3", "4", "5", "6", "7", "8", "9">>
LowerHex   == DigitChars \o <<"a", "b", "c", "d", "e", "f">>
UpperHex   == DigitChars \o <<"A", "B", "C", "D", "E", "F">>

\* '{}'.format(n) for a non-negative int: its decimal digits
RECURSIVE Decimal(_)
Decimal(n) == IF n < 10 THEN <<DigitChars[n + 1]>>
              ELSE Decimal(n \div 10) \o <<DigitChars[(n % 10) + 1]>>

RECURSIVE Spaces(_)
Spaces(n) == IF n <= 0 THEN <<>> ELSE <<" ">> \o Spaces(n - 1)

ScreenWidth == 60
\* '{:<60}'.format(s): left-justified in a field of 60, never truncated
PadLeft60(s) == s \o Spaces(ScreenWidth - Len(s))

\* str.upper() on one character of a hex string
Upper(c) == IF \E k \in 1..16 : LowerHex[k] = c
            THEN UpperHex[CHOOSE k \in 1..16 : LowerHex[k] = c]
            ELSE c

\* bytes.hex(): two lowercase hex digits per byte
RECURSIVE BytesHex(_)
BytesHex(b) == IF b = <<>> THEN <<>>
               ELSE <<LowerHex[(Head(b) \div 16) + 1], LowerHex[(Head(b) % 16) + 1]>>
                    \o BytesHex(Tail(b))

(***************************************************************************)
(* EDS objects.  A node is [kind, val, items]; items is the sequence of    *)
(* [name, obj] the object iterates over (name is unused for an Array).     *)
(***************************************************************************)
Scalar(v)     == [kind |-> "Scalar", val |-> v, items |-> <<>>]
Array(its)    == [kind |-> "Array", val |-> 0, items |-> its]
Container(its) == [kind |-> "Container", val |-> 0, items |-> its]
Item(n, o)    == [name |-> n, obj |-> o]

IsArray(o)     == o.kind = "Array"
IsContainer(o) == o.kind = "Container"

(***************************************************************************)
(* tlm_display_string (lines 81-118).  The two for loops are the           *)
(* recursive operators ArrayLoop and ContainerLoop, threading `result`.    *)
(***************************************************************************)
\* the leaf branch with `result = ...` in place of `result += ...`
LeafStringAssign(flag, base_object, base_name, result) ==
    IF flag = "screen"
    THEN PadLeft60(base_name) \o <<" ", "=", " ">> \o Decimal(base_object.val) \o <<"\n">>
    ELSE IF flag = "labels"
    THEN base_name \o <<",", " ">>
    ELSE IF flag = "values"
    THEN Decimal(base_object.val) \o <<",", " ">>
    ELSE <<>>

\* the leaf branch with the value appended to the name in a label
LeafStringLabelWithValue(flag, base_object, base_name, result) ==
    IF flag = "screen"
    THEN result \o PadLeft60(base_name) \o <<" ", "=", " ">> \o Decimal(base_object.val) \o <<"\n">>
    ELSE IF flag = "labels"
    THEN result \o base_name \o <<"=">> \o Decimal(base_object.val) \o <<",", " ">>
    ELSE IF flag = "values"
    THEN result \o Decimal(base_object.val) \o <<",", " ">>
    ELSE <<>>

\* lines 107-116: the leaf branch
LeafString(flag, base_object, base_name, result) ==
    IF flag = "screen"
    THEN result \o PadLeft60(base_name) \o <<" ", "=", " ">> \o Decimal(base_object.val) \o <<"\n">>
    ELSE IF flag = "labels"
    THEN result \o base_name \o <<",", " ">>
    ELSE IF flag = "values"
    THEN result \o Decimal(base_object.val) \o <<",", " ">>
    ELSE <<>>

RECURSIVE tlm_display_string(_, _, _, _)
RECURSIVE ArrayLoop(_, _, _, _, _)
RECURSIVE ContainerLoop(_, _, _, _, _)

\* lines 100-101, iteration i (0-based) onwards
ArrayLoop(flag, base_object, base_name, i, result) ==
    IF i >= Len(base_object.items) THEN result
    ELSE ArrayLoop(flag, base_object, base_name, i + 1,
            tlm_display_string(flag, base_object.items[i + 1].obj,
                               base_name \o <<"[">> \o Decimal(i) \o <<"]">>, result))

\* lines 104-105, from the k-th item (1-based) onwards
ContainerLoop(flag, base_object, base_name, k, result) ==
    IF k > Len(base_object.items) THEN result
    ELSE ContainerLoop(flag, base_object, base_name, k + 1,
            tlm_display_string(flag, base_object.items[k].obj,
                               base_name \o <<".">> \o base_object.items[k].name, result))

tlm_display_string(flag, base_object, base_name, message) ==
    IF IsArray(base_object) THEN ArrayLoop(flag, base_object, base_name, 0, message)
    ELSE IF IsContainer(base_object) THEN ContainerLoop(flag, base_object, base_name, 1, message)
    ELSE LeafString(flag, base_object, base_name, message)

(***************************************************************************)
(* hex_string (lines 60-78)                                                *)
(***************************************************************************)
\* the loop with string[i] used for both digits
RECURSIVE HexLoopSameDigit(_, _, _, _, _)
HexLoopSameDigit(string, bpl, i, count, acc) ==
    IF i >= Len(string) THEN acc
    ELSE LET piece == <<"0", "x", Upper(string[i + 1]), Upper(string[i + 1]), " ">>
             nl    == IF (count + 1) % bpl = 0 THEN <<"\n">> ELSE <<>>
         IN HexLoopSameDigit(string, bpl, i + 2, count + 1, acc \o piece \o nl)

\* lines 73-77, from index i (0-based) with `count` bytes emitted so far
RECURSIVE HexLoop(_, _, _, _, _)
HexLoop(string, bpl, i, count, acc) ==
    IF i >= Len(string) THEN acc
    ELSE LET piece == <<"0", "x", Upper(string[i + 1]), Upper(string[i + 2]), " ">>
             nl    == IF (count + 1) % bpl = 0 THEN <<"\n">> ELSE <<>>
         IN HexLoop(string, bpl, i + 2, count + 1, acc \o piece \o nl)

hex_string(string, bpl) == HexLoop(string, bpl, 0, 0, <<>>)

(***************************************************************************)
(* The objects tlm_display_string is called on: every tree of at most      *)
(* MaxNodes nodes.  The elements of an Array have one shape; the fields of *)
(* a Container carry distinct names, in the order of FieldOrder.           *)
(***************************************************************************)
ScalarVals == {7, 12}
FieldOrder == <<<<"b">>, <<"a">>, <<"d", "x">>, <<"c">>, <<"e">>, <<"f">>>>
TopName    == <<"T">>
Flags      == {"labels", "values", "screen", "bogus"}
Recognised == {"labels", "values", "screen"}

RECURSIVE SameShape(_, _)
SameShape(s, t) ==
    /\ s.kind = t.kind
    /\ Len(s.items) = Len(t.items)
    /\ \A k \in 1..Len(s.items) :
          /\ s.items[k].name = t.items[k].name
          /\ SameShape(s.items[k].obj, t.items[k].obj)

RECURSIVE TreesOfSize(_)
RECURSIVE ForestsOfSize(_)
\* sequences of trees with n nodes in all
ForestsOfSize(n) ==
    IF n = 0 THEN {<<>>}
    ELSE UNION {{<<t>> \o f : t \in TreesOfSize(k), f \in ForestsOfSize(n - k)} : k \in 1..n}

AsElements(f) == [k \in 1..Len(f) |-> Item(<<>>, f[k])]
AsFields(f)   == [k \in 1..Len(f) |-> Item(FieldOrder[k], f[k])]

TreesOfSize(n) ==
    IF n = 1 THEN {Scalar(v) : v \in ScalarVals} \cup {Array(<<>>), Container(<<>>)}
    ELSE {Array(AsElements(f)) :
             f \in {g \in ForestsOfSize(n - 1) : \A k \in 1..Len(g) : SameShape(g[1], g[k])}}
         \cup {Container(AsFields(f)) :
                 f \in {g \in ForestsOfSize(n - 1) : Len(g) <= Len(FieldOrder)}}

AllTrees == UNION {TreesOfSize(n) : n \in 1..MaxNodes}

(***************************************************************************)
(* tlm_display_string called on its own                                    *)
(***************************************************************************)
FlatIdle == /\ fpc = "idle" /\ output_flag = "labels"
            /\ objA = Scalar(0) /\ objB = Scalar(0)
            /\ outA = <<>> /\ outB = <<>> /\ fstatus = "none"
HexIdle  == /\ hpc = "idle" /\ hbytes = <<>> /\ bytes_per_line = 1 /\ hex_str = <<>>

\* the call returns whatever lines 97-118 compute; no path of them raises
CallDisplay ==
    /\ fpc = "ready"
    /\ outA' = tlm_display_string(output_flag, objA, TopName, <<>>)
    /\ outB' = tlm_display_string(output_flag, objB, TopName, <<>>)
    /\ fstatus' = "returned"
    /\ fpc' = "done"
    /\ UNCHANGED <<output_flag, objA, objB, drvVars, hexVars>>

(***************************************************************************)
(* hex_string called on its own, on the .hex() of some bytes (line 199)    *)
(***************************************************************************)
ByteVals == {0, 9, 10, 171, 255}

RECURSIVE SeqsUpTo(_, _)
SeqsUpTo(S, n) == IF n = 0 THEN {<<>>}
                  ELSE LET R == SeqsUpTo(S, n - 1)
                       IN R \cup {Append(r, x) : r \in {q \in R : Len(q) = n - 1}, x \in S}

CallHex ==
    /\ hpc = "ready"
    /\ hex_str' = hex_string(BytesHex(hbytes), bytes_per_line)
    /\ hpc' = "done"
    /\ UNCHANGED <<hbytes, bytes_per_line, drvVars, fltVars>>

(***************************************************************************)
(* The mission dictionary behind decode_message (EdsLib, CFE_MissionLib    *)
(* are outside the repository).  A stand-in dictionary: a message is laid  *)
(* out as <<id, x, y>>; id 1 is type T = {a, b}, id 2 is type U, an array  *)
(* of two {v}; any other id is unknown.  A packet that is shorter or       *)
(* longer than the layout may be rejected, or decoded with the missing     *)
(* bytes taking any value.                                                 *)
(***************************************************************************)
Layout    == <<"id", "x", "y">>
KnownIds  == {1, 2}
FileBytes == {0, 1, 2}

EntryName(id) == IF id = 1 THEN <<"T">> ELSE <<"U">>
EdsObject(id, x, y) ==
    IF id = 1
    THEN Container(<<Item(<<"a">>, Scalar(x)), Item(<<"b">>, Scalar(y))>>)
    ELSE Array(<<Item(<<>>, Container(<<Item(<<"v">>, Scalar(x))>>)),
                 Item(<<>>, Container(<<Item(<<"v">>, Scalar(y))>>))>>)

DecodeFailure == [ok |-> FALSE, name |-> <<>>, obj |-> Scalar(0)]
Decoded(id, x, y) == [ok |-> TRUE, name |-> EntryName(id), obj |-> EdsObject(id, x, y)]

\* decode_message (lines 40-57): the outcomes of decoding raw_message
decode_message(raw_message) ==
    LET n == Len(raw_message) IN
    IF raw_message[1] \notin KnownIds THEN {DecodeFailure}
    ELSE IF n = Len(Layout) THEN {Decoded(raw_message[1], raw_message[2], raw_message[3])}
    ELSE {DecodeFailure} \cup
         {Decoded(raw_message[1],
                  IF n >= 2 THEN raw_message[2] ELSE x,
                  IF n >= 3 THEN raw_message[3] ELSE y) : x \in FileBytes, y \in FileBytes}

(***************************************************************************)
(* read_packet (lines 121-136) and main (lines 140-204)                    *)
(***************************************************************************)
HeaderLen == 4
ScreenBytesPerLine == 16

\* file_object.read(n) at position p: up to n bytes, b'' at end of file or for n = 0
FileRead(f, p, n) == SubSeq(f, p + 1, Min(p + n, Len(f)))

\* int.from_bytes(b, byteorder='big', signed=False); 0 for b''
RECURSIVE FromBytesBig(_)
FromBytesBig(b) == IF b = <<>> THEN 0
                   ELSE FromBytesBig(SubSeq(b, 1, Len(b) - 1)) * 256 + b[Len(b)]

\* the loop body without the '\n' after the labels
CsvTextHeaderNoNewline(printed, name, obj) ==
    (IF ~printed THEN tlm_display_string("labels", obj, name, <<>>) ELSE <<>>)
    \o tlm_display_string("values", obj, name, <<>>) \o <<"\n">>

\* the loop body without the labels_printed test
CsvTextAlwaysLabels(printed, name, obj) ==
    tlm_display_string("labels", obj, name, <<>>) \o <<"\n">>
    \o tlm_display_string("values", obj, name, <<>>) \o <<"\n">>

\* lines 190-195: what one iteration of the loop writes to fout
CsvText(printed, name, obj) ==
    (IF ~printed THEN tlm_display_string("labels", obj, name, <<>>) \o <<"\n">> ELSE <<>>)
    \o tlm_display_string("values", obj, name, <<>>) \o <<"\n">>

\* lines 198-200: what one iteration prints
ScreenText(flag, packet, name, obj) ==
    IF flag THEN <<hex_string(BytesHex(packet), ScreenBytesPerLine),
                   tlm_display_string("screen", obj, name, <<>>)>>
    ELSE <<>>

\* the loop with the exception of decode_message caught and the packet passed over
DecodeSkips == [pc |-> "Streaming", error |-> "none"]

\* line 189 is not inside any try: an exception of decode_message leaves main
DecodeRaises == [pc |-> "Exited", error |-> "DecodeError"]

HeaderBytes == {0, 3}
Files == LET H == SeqsUpTo(HeaderBytes, HeaderLen) IN
         {h \in H : Len(h) < HeaderLen}
         \cup {h \o b : h \in {g \in H : Len(g) = HeaderLen}, b \in SeqsUpTo(FileBytes, MaxBody)}

DriverIdle ==
    /\ pc = "Idle" /\ error = "none" /\ screen_flag = FALSE /\ has_filename = FALSE
    /\ file = <<>> /\ pos = 0 /\ fin_open = FALSE /\ fout_open = FALSE
    /\ packet_length = 0 /\ labels_printed = FALSE /\ fout = <<>> /\ console = <<>>
    /\ decoded = <<>> /\ yielded = <<>>

Init ==
    /\ pc = "ParseArgs" /\ error = "none" /\ screen_flag = FALSE /\ has_filename = FALSE
    /\ file \in Files /\ pos = 0 /\ fin_open = FALSE /\ fout_open = FALSE
    /\ packet_length = 0 /\ labels_printed = FALSE /\ fout = <<>> /\ console = <<>>
    /\ decoded = <<>> /\ yielded = <<>>
    /\ FlatIdle /\ HexIdle

Usage == <<"convert_tlm_file.py --file=<filename>">>

\* lines 147-167
ParseArgs ==
    /\ pc = "ParseArgs"
    /\ \/ /\ pc' = "Exited" /\ error' = "SystemExit2"           \* getopt.GetoptError
          /\ console' = Append(console, Usage)
          /\ UNCHANGED <<screen_flag, has_filename>>
       \/ /\ pc' = "Exited" /\ error' = "SystemExit0"           \* -h
          /\ console' = console \o <<Usage, <<" --file= : telemetry file name">>,
                                     <<" -h : help">>, <<" -s : print to screen">>>>
          /\ UNCHANGED <<screen_flag, has_filename>>
       \/ /\ pc' = "InitDb" /\ UNCHANGED <<error, console>>
          /\ screen_flag' \in BOOLEAN
          /\ has_filename' \in BOOLEAN
    /\ UNCHANGED <<file, pos, fin_open, fout_open, packet_length, labels_printed, fout,
                   decoded, yielded, fltVars, hexVars>>

\* lines 169-175
InitDatabases ==
    /\ pc = "InitDb"
    /\ \/ /\ pc' = "OpenSource" /\ UNCHANGED <<error, console>>
       \/ /\ pc' = "Exited" /\ error' = "SystemExit2"           \* RuntimeError
          /\ console' = Append(console, <<"convert_tlm_file.py is not properly configured">>)
    /\ UNCHANGED <<screen_flag, has_filename, file, pos, fin_open, fout_open, packet_length,
                   labels_printed, fout, decoded, yielded, fltVars, hexVars>>

\* lines 177-182: open() raises OSError, which `except RuntimeError` does not catch;
\* `filename` is unbound when no --file= was given
OpenSource ==
    /\ pc = "OpenSource"
    /\ IF ~has_filename
       THEN pc' = "Exited" /\ error' = "UnboundLocalError" /\ UNCHANGED fin_open
       ELSE \/ pc' = "ReadLength" /\ fin_open' = TRUE /\ UNCHANGED error
            \/ pc' = "Exited" /\ error' = "OSError" /\ UNCHANGED fin_open
    /\ UNCHANGED <<screen_flag, has_filename, file, pos, fout_open, packet_length,
                   labels_printed, fout, console, decoded, yielded, fltVars, hexVars>>

\* line 184
ReadLength ==
    /\ pc = "ReadLength"
    /\ LET b == FileRead(file, pos, HeaderLen) IN
          /\ packet_length' = FromBytesBig(b)
          /\ pos' = pos + Len(b)
    /\ pc' = "OpenDest"
    /\ UNCHANGED <<error, screen_flag, has_filename, file, fin_open, fout_open,
                   labels_printed, fout, console, decoded, yielded, fltVars, hexVars>>

\* lines 185-186
OpenDest ==
    /\ pc = "OpenDest"
    /\ \/ pc' = "Streaming" /\ fout_open' = TRUE /\ fout' = <<>> /\ UNCHANGED error
       \/ pc' = "Exited" /\ error' = "OSError" /\ UNCHANGED <<fout_open, fout>>
    /\ UNCHANGED <<screen_flag, has_filename, file, pos, fin_open, packet_length,
                   labels_printed, console, decoded, yielded, fltVars, hexVars>>

\* lines 188-200, one iteration: read_packet's read (133), its test (134), the loop body
StreamStep ==
    /\ pc = "Streaming"
    /\ LET packet == FileRead(file, pos, packet_length) IN
       IF packet = <<>>
       THEN /\ pc' = "Close"
            /\ UNCHANGED <<error, pos, labels_printed, fout, console, decoded, yielded>>
       ELSE /\ pos' = pos + Len(packet)
            /\ yielded' = Append(yielded, packet)
            /\ \E r \in decode_message(packet) :
                  IF ~r.ok
                  THEN /\ pc' = DecodeRaises.pc
                       /\ error' = DecodeRaises.error
                       /\ UNCHANGED <<labels_printed, fout, console, decoded>>
                  ELSE /\ fout' = fout \o CsvText(labels_printed, r.name, r.obj)
                       /\ labels_printed' = TRUE
                       /\ console' = console \o ScreenText(screen_flag, packet, r.name, r.obj)
                       /\ decoded' = Append(decoded, [name |-> r.name, obj |-> r.obj])
                       /\ UNCHANGED <<pc, error>>
    /\ UNCHANGED <<screen_flag, has_filename, file, fin_open, fout_open, packet_length,
                   fltVars, hexVars>>

\* lines 202-204
CloseFiles ==
    /\ pc = "Close"
    /\ fin_open' = FALSE
    /\ fout_open' = FALSE
    /\ pc' = "Done"
    /\ UNCHANGED <<error, screen_flag, has_filename, file, pos, packet_length,
                   labels_printed, fout, console, decoded, yielded, fltVars, hexVars>>

Next == ParseArgs \/ InitDatabases \/ OpenSource \/ ReadLength \/ OpenDest
        \/ StreamStep \/ CloseFiles

Spec == Init /\ [][Next]_vars

(***************************************************************************)
(* Specifications of the two functions called on their own                 *)
(***************************************************************************)
InitFlat ==
    /\ DriverIdle /\ HexIdle
    /\ fpc = "ready"
    /\ output_flag \in Flags
    /\ objA \in AllTrees
    /\ objB \in {t \in AllTrees : SameShape(objA, t)}
    /\ outA = <<>> /\ outB = <<>> /\ fstatus = "none"

NextFlat == CallDisplay
SpecFlat == InitFlat /\ [][NextFlat]_vars

InitHex ==
    /\ DriverIdle /\ FlatIdle
    /\ hpc = "ready"
    /\ hbytes \in SeqsUpTo(ByteVals, MaxBytes)
    /\ bytes_per_line \in 1..MaxBpl
    /\ hex_str = <<>>

NextHex == CallHex
SpecHex == InitHex /\ [][NextHex]_vars

(***************************************************************************)
(* Reference definitions used by the properties                            *)
(***************************************************************************)
RECURSIVE RefFlatten(_, _)
RECURSIVE RefChildren(_, _, _)
\* the (path, value) pairs of the Scalar leaves of t, in depth-first pre-order
RefFlatten(t, path) ==
    IF t.kind = "Scalar" THEN <<[path |-> path, val |-> t.val]>>
    ELSE RefChildren(t, path, 1)
RefChildren(t, path, k) ==
    IF k > Len(t.items) THEN <<>>
    ELSE RefFlatten(t.items[k].obj,
                    IF t.kind = "Array" THEN path \o <<"[">> \o Decimal(k - 1) \o <<"]">>
                    ELSE path \o <<".">> \o t.items[k].name)
         \o RefChildren(t, path, k + 1)

RenderEntry(flag, e) ==
    CASE flag = "labels" -> e.path \o <<",", " ">>
      [] flag = "values" -> Decimal(e.val) \o <<",", " ">>
      [] flag = "screen" -> e.path \o Spaces(ScreenWidth - Len(e.path)) \o <<" ", "=", " ">>
                            \o Decimal(e.val) \o <<"\n">>

RECURSIVE RenderAll(_, _)
RenderAll(flag, es) == IF es = <<>> THEN <<>>
                       ELSE RenderEntry(flag, Head(es)) \o RenderAll(flag, Tail(es))

RECURSIVE NumLeaves(_)
RECURSIVE NumLeavesFrom(_, _)
NumLeaves(t) == IF t.kind = "Scalar" THEN 1 ELSE NumLeavesFrom(t, 1)
NumLeavesFrom(t, k) == IF k > Len(t.items) THEN 0
                       ELSE NumLeaves(t.items[k].obj) + NumLeavesFrom(t, k + 1)

CountChar(text, c) == Cardinality({k \in 1..Len(text) : text[k] = c})

\* the lines of a text, each without its "\n"
RECURSIVE SplitLines(_, _)
SplitLines(text, cur) ==
    IF text = <<>> THEN (IF cur = <<>> THEN <<>> ELSE <<cur>>)
    ELSE IF Head(text) = "\n" THEN <<cur>> \o SplitLines(Tail(text), <<>>)
    ELSE SplitLines(Tail(text), Append(cur, Head(text)))

HeaderOf(d) == RenderAll("labels", RefFlatten(d.obj, d.name))
ValuesOf(d) == RenderAll("values", RefFlatten(d.obj, d.name))

RECURSIVE DataLines(_)
DataLines(ds) == IF ds = <<>> THEN <<>>
                 ELSE ValuesOf(Head(ds)) \o <<"\n">> \o DataLines(Tail(ds))
ExpectedCsv(ds) == IF ds = <<>> THEN <<>>
                   ELSE HeaderOf(ds[1]) \o <<"\n">> \o DataLines(ds)

\* the input seen as a length header and N packets
NumPackets == (Len(file) - HeaderLen) \div packet_length
Chunk(k)   == SubSeq(file, HeaderLen + (k - 1) * packet_length + 1,
                     HeaderLen + k * packet_length)
WellFormedInput ==
    /\ Len(file) >= HeaderLen
    /\ packet_length > 0
    /\ (Len(file) - HeaderLen) % packet_length = 0
    /\ \A k \in 1..NumPackets : \E r \in decode_message(Chunk(k)) : r.ok

(***************************************************************************)
(* Properties                                                              *)
(***************************************************************************)

\* C1: read_packet never yields a buffer shorter than packet_length (a
\* truncated trailing read ends the run in an error and yields nothing).
C1_NoShortPacket ==
    \A k \in 1..Len(yielded) : Len(yielded[k]) = packet_length

\* C2 (as stated): for a well-formed input of N >= 0 decodable packets, a
\* finished run has written N + 1 lines.
C2_LinesAreNPlusOne ==
    (pc = "Done" /\ WellFormedInput) => CountChar(fout, "\n") = NumPackets + 1

\* C2 (amended): for a well-formed input of N packets, a finished run has
\* written N + 1 lines when N >= 1 and no line at all when N = 0.
C2_LinesAreNPlusOneUnlessEmpty ==
    (pc = "Done" /\ WellFormedInput) =>
        CountChar(fout, "\n") = (IF NumPackets = 0 THEN 0 ELSE NumPackets + 1)

C2_Witness ==
    /\ pc = "Done" /\ WellFormedInput /\ NumPackets = 2
    /\ CountChar(fout, "\n") = 3

\* C3: once a data line is written, the labels line has been written exactly
\* once, as the first line, from the first decoded packet, every later line is
\* the data line of one packet; and labels_printed, once set, stays set.
C3_HeaderState ==
    LET L == SplitLines(fout, <<>>) IN
    /\ labels_printed <=> fout # <<>>
    /\ fout # <<>> =>
          /\ Len(L) = Len(decoded) + 1
          /\ L[1] = HeaderOf(decoded[1])
          /\ \A k \in 2..Len(L) : L[k] = ValuesOf(decoded[k - 1])
          /\ Cardinality({k \in 1..Len(L) : L[k] = HeaderOf(decoded[1])}) = 1

C3_HeaderOnceFirst ==
    /\ []C3_HeaderState
    /\ [][labels_printed => labels_printed']_vars

C3_Witness ==
    /\ Len(decoded) = 2
    /\ decoded[1].name # decoded[2].name
    /\ Len(SplitLines(fout, <<>>)) = 3

\* C4: no terminal state of main has fin or fout still open.
C4_HandlesReleased ==
    pc \in {"Done", "Exited"} => (~fin_open /\ ~fout_open)

\* C5: with a length of 0, or fewer than 4 bytes of header, the run never
\* enters Streaming and never finishes as a successful conversion.
C5_BadLengthIsFatal ==
    pc \in {"Streaming", "Close", "Done"} => (Len(file) >= HeaderLen /\ packet_length > 0)

\* C6: for every tree and every recognised mode, tlm_display_string returns
\* the rendering of the pre-order flattening of the tree: one entry per
\* Scalar leaf, array elements by ascending index, fields in declared order.
C6_PreOrderFlattening ==
    (fpc = "done" /\ output_flag \in Recognised) =>
        /\ outA = RenderAll(output_flag, RefFlatten(objA, TopName))
        /\ CountChar(outA, IF output_flag = "screen" THEN "\n" ELSE ",") = NumLeaves(objA)

C6_Witness ==
    /\ fpc = "done" /\ output_flag = "screen"
    /\ objA.kind = "Container" /\ Len(objA.items) = 1
    /\ objA.items[1].obj.kind = "Array" /\ Len(objA.items[1].obj.items) = 2
    /\ CountChar(outA, "\n") = 2

\* C7: two trees of the same shape that differ only in their scalar values
\* give the same labels string.
C7_LabelsDependOnShapeOnly ==
    (fpc = "done" /\ output_flag = "labels" /\ SameShape(objA, objB)) => outA = outB

C7_Witness ==
    /\ fpc = "done" /\ output_flag = "labels"
    /\ SameShape(objA, objB) /\ objA # objB
    /\ NumLeaves(objA) = 2 /\ outA = outB

\* C8: with an unrecognised mode at a Scalar leaf, tlm_display_string raises
\* a fatal error and does not return a string.
C8_UnknownModeIsFatal ==
    (fpc = "done" /\ output_flag \notin Recognised /\ NumLeaves(objA) > 0) =>
        fstatus = "raised"

\* C10: a decode failure of the k-th packet stops the run at that packet: the
\* file holds exactly the labels line and the data lines of packets 1..k-1,
\* in input order, and no packet is ever passed over.
C10_AbortOnDecodeFailure ==
    /\ \A k \in 1..Len(yielded) :
          yielded[k] = FileRead(file, HeaderLen + (k - 1) * packet_length, packet_length)
    /\ \A k \in 1..Len(decoded) :
          [ok |-> TRUE, name |-> decoded[k].name, obj |-> decoded[k].obj]
              \in decode_message(yielded[k])
    /\ error = "DecodeError" =>
          /\ pc = "Exited"
          /\ Len(yielded) = Len(decoded) + 1
          /\ fout = ExpectedCsv(decoded)
    /\ error # "DecodeError" => Len(yielded) = Len(decoded)

C10_Witness ==
    /\ error = "DecodeError" /\ pc = "Exited"
    /\ Len(yielded) = 2 /\ Len(decoded) = 1
    /\ fout = ExpectedCsv(decoded) /\ fout # <<>>

\* removing every "0x" from a text
RECURSIVE StripOx(_)
StripOx(text) ==
    IF text = <<>> THEN <<>>
    ELSE IF Len(text) >= 2 /\ text[1] = "0" /\ text[2] = "x" THEN StripOx(SubSeq(text, 3, Len(text)))
    ELSE <<Head(text)>> \o StripOx(Tail(text))

IsSpace(c) == c \in {" ", "\n"}
StripSpace(text) == SelectSeq(text, LAMBDA c : ~IsSpace(c))

\* the whitespace-separated words of a text
RECURSIVE Words(_, _)
Words(text, cur) ==
    IF text = <<>> THEN (IF cur = <<>> THEN <<>> ELSE <<cur>>)
    ELSE IF IsSpace(Head(text))
         THEN (IF cur = <<>> THEN <<>> ELSE <<cur>>) \o Words(Tail(text), <<>>)
         ELSE Words(Tail(text), Append(cur, Head(text)))

HexVal(c) == CHOOSE v \in 0..15 : UpperHex[v + 1] = c \/ LowerHex[v + 1] = c
\* bytes.fromhex
RECURSIVE Unhex(_)
Unhex(text) == IF Len(text) < 2 THEN <<>>
               ELSE <<HexVal(text[1]) * 16 + HexVal(text[2])>> \o Unhex(SubSeq(text, 3, Len(text)))

\* C9: hex_string renders each byte as 0xHH, two uppercase digits, in order,
\* with a line break after every bytes_per_line bytes; removing "0x" and
\* whitespace and decoding the hex digits gives the bytes back.
C9_HexRoundTrip ==
    hpc = "done" =>
        LET W == Words(hex_str, <<>>) IN
        /\ Unhex(StripSpace(StripOx(hex_str))) = hbytes
        /\ Len(W) = Len(hbytes)
        /\ \A k \in 1..Len(W) :
              W[k] = <<"0", "x", UpperHex[(hbytes[k] \div 16) + 1], UpperHex[(hbytes[k] % 16) + 1]>>
        /\ CountChar(hex_str, "\n") = Len(hbytes) \div bytes_per_line

C9_Witness ==
    /\ hpc = "done" /\ Len(hbytes) = 3 /\ bytes_per_line = 2
    /\ hbytes[1] = 171 /\ hbytes[2] = 10
    /\ Unhex(StripSpace(StripOx(hex_str))) = hbytes

====
